---------------------------- MODULE Spec2Model ----------------------------
(***************************************************************************)
(* A model of jeprofl, a sampling heap-allocation profiler:                *)
(*   - the shared schema (jeprof-common/src/lib.rs): Histogram and         *)
(*     HistogramKey,                                                       *)
(*   - the in-kernel probe (jeprofl-ebpf/src/main.rs),                     *)
(*   - the user-space collector and reporter (jeprof/src/collector.rs,     *)
(*     jeprof/src/main.rs).                                                *)
(*                                                                         *)
(* Machine integers are scaled: a u64 is modelled as a WordBits-bit        *)
(* unsigned word, and the 16 GiB limit behind MAX_TRACKED_ALLOCATION_SIZE  *)
(* as 2^BucketBits, with BucketBits < WordBits exactly as 34 < 64, so that *)
(* saturation, wrap-around and out-of-range buckets are all reachable.     *)
(* An unchecked `+` on a u64 wraps in a build without overflow checks and  *)
(* panics in a build with them. The operators that model such an addition  *)
(* take the build's setting as the argument overflow_checks, and the       *)
(* actions that evaluate them allow the outcome of either build. A panic   *)
(* ends a user-space thread; in the probe, whose panic handler is          *)
(* unreachable_unchecked, the invocation is modelled as never returning.   *)
(***************************************************************************)
EXTENDS Integers, Sequences, FiniteSets, TLC

\* ------------------------------------------------------------------ bounds

\* Width of the scaled u64.
WordBits == 3

\* log2 of the scaled 16 GiB limit (34 in the source).
BucketBits == 2

\* Width of the scaled u32 (a pid, a stack id, a cpu number).
U32Bits == 2

\* nr_cpus(): the CPUs are 0..NumCpus-1.
NumCpus == 2

\* Calls of process begun after the flag was set that are counted.
MaxLateProcess == 2

\* Probe invocations per CPU in a run: one more than SAMPLE_COUNT has values.
MaxCalls == 9

\* Probe invocations, over all CPUs, that pass the sampling step in a run.
MaxSamples == 2

\* The largest --sample-every tried.
MaxSampleEvery == 3

\* Probe invocations in a run that has a lookup overlap many of them: as
\* many as bring the sum of the counters of one shard past u64::MAX.
MaxLookupCalls == 8

\* ------------------------------------------------------------ u64 helpers

U64_MAX == 2^WordBits - 1

U64 == 0..U64_MAX

Min(a, b) == IF a < b THEN a ELSE b

\* u64::saturating_add
SaturatingAdd(a, b) == IF a + b > U64_MAX THEN U64_MAX ELSE a + b

\* `+` / `+=` on u64 without overflow checks
WrappingAdd(a, b) == (a + b) % (U64_MAX + 1)

\* The outcome of a u64 computation that panics ("attempt to add with
\* overflow"); not a u64.
Panic == -1

\* The builds whose outcomes differ in a step: both where an addition of the
\* step can overflow; elsewhere the two behave alike and one stands for both.
Builds(can_overflow) == IF can_overflow THEN BOOLEAN ELSE {FALSE}

\* A log2 that rounds up instead of down.
RECURSIVE ILog2Ceil(_)
ILog2Ceil(v) == IF v <= 1 THEN 0 ELSE 1 + ILog2Ceil((v + 1) \div 2)

\* u64::ilog2, for v >= 1: the position of the highest set bit, found by
\* shifting right until the value is 1.
RECURSIVE ILog2(_)
ILog2(v) == IF v <= 1 THEN 0 ELSE 1 + ILog2(v \div 2)

\* ------------------------------------------------- jeprof-common: Histogram

\* const MAX: usize = 16 * GIB (scaled)
MAX_ALLOC_TRACKED == 2^BucketBits

\* const MAX_TRACKED_ALLOCATION_SIZE = MAX.ilog2(): the length of `data`
MAX_TRACKED_ALLOCATION_SIZE == ILog2(MAX_ALLOC_TRACKED)

\* The indices of Histogram::data
Buckets == 0..(MAX_TRACKED_ALLOCATION_SIZE - 1)

\* Histogram::new
HistogramNew == [data |-> [i \in Buckets |-> 0], total |-> 0]

\* An increment whose total wraps instead of saturating.
IncrementWrappingTotal(h, value) ==
    IF value = 0
    THEN h
    ELSE LET pow2 == ILog2(value)
             data == IF pow2 \in Buckets
                     THEN [h.data EXCEPT ![pow2] = WrappingAdd(@, 1)]
                     ELSE h.data
         IN  [data |-> data, total |-> WrappingAdd(h.total, value)]

\* An increment that counts a value beyond the last bucket in the last bucket.
IncrementClampBucket(h, value) ==
    IF value = 0
    THEN h
    ELSE LET pow2 == IF ILog2(value) \in Buckets THEN ILog2(value)
                     ELSE MAX_TRACKED_ALLOCATION_SIZE - 1
         IN  [data  |-> [h.data EXCEPT ![pow2] = WrappingAdd(@, 1)],
              total |-> SaturatingAdd(h.total, value)]

\* Histogram::increment panics: `*bucket += 1` on a counter at the maximum in
\* a build with overflow checks, before anything is stored.
IncrementPanics(h, value, overflow_checks) ==
    /\ overflow_checks
    /\ value # 0
    /\ ILog2(value) \in Buckets
    /\ h.data[ILog2(value)] = U64_MAX

\* Histogram::increment, when it does not panic: the histogram after it. A
\* counter at the maximum wraps (the build has no overflow checks).
Increment(h, value) ==
    IF value = 0
    THEN h
    ELSE LET pow2 == ILog2(value)
             data == IF pow2 \in Buckets
                     THEN [h.data EXCEPT ![pow2] = WrappingAdd(@, 1)]
                     ELSE h.data
         IN  [data |-> data, total |-> SaturatingAdd(h.total, value)]

\* A merge that leaves a field as it is when the sum would overflow.
MergeKeepOnOverflow(h, other) ==
    [data  |-> [i \in Buckets |->
                  IF h.data[i] + other.data[i] > U64_MAX THEN h.data[i]
                  ELSE h.data[i] + other.data[i]],
     total |-> IF h.total + other.total > U64_MAX THEN h.total
               ELSE h.total + other.total]

\* Histogram::merge
Merge(h, other) ==
    [data  |-> [i \in Buckets |-> SaturatingAdd(h.data[i], other.data[i])],
     total |-> SaturatingAdd(h.total, other.total)]

\* The mathematical sum of the counters of data, over indices 0..n-1
RECURSIVE SumTo(_, _)
SumTo(data, n) == IF n = 0 THEN 0 ELSE SumTo(data, n - 1) + data[n - 1]

SumCounters(h) == SumTo(h.data, MAX_TRACKED_ALLOCATION_SIZE)

\* data.iter().sum::<u64>() over indices 0..n-1: the additions wrap in a build
\* without overflow checks; with them, the first that overflows panics.
RECURSIVE IterSum(_, _, _)
IterSum(data, n, overflow_checks) ==
    IF n = 0 THEN 0
    ELSE LET acc == IterSum(data, n - 1, overflow_checks)
         IN  IF acc = Panic THEN Panic
             ELSE IF overflow_checks /\ acc + data[n - 1] > U64_MAX THEN Panic
             ELSE WrappingAdd(acc, data[n - 1])

\* Histogram::total_count
TotalCount(h, overflow_checks) ==
    IterSum(h.data, MAX_TRACKED_ALLOCATION_SIZE, overflow_checks)

\* ------------------------------------------- jeprof-common: HistogramKey

U32 == 0..(2^U32Bits - 1)

\* `as u32`
AsU32(x) == x % (2^U32Bits)

\* A key whose pid is shifted by one bit too few.
HistogramKeyNewShortShift(pid, stack_id, cpu) ==
    [pid_stack |-> (pid * 2^(U32Bits - 1) + stack_id) % (2^(2 * U32Bits)),
     cpu       |-> cpu]

\* HistogramKey::new: pid << 32 | stack_id, and the cpu in a word of its own
HistogramKeyNew(pid, stack_id, cpu) ==
    [pid_stack |-> (pid * 2^U32Bits + stack_id) % (2^(2 * U32Bits)),
     cpu       |-> cpu]

\* HistogramKey::into_parts
IntoParts(key) ==
    [pid      |-> AsU32(key.pid_stack \div 2^U32Bits),
     stack_id |-> AsU32(key.pid_stack),
     cpu      |-> AsU32(key.cpu)]

\* UnpackedHistogramKey::as_reduced
AsReduced(k) == [pid |-> k.pid, stack_id |-> k.stack_id]

\* ------------------------------------------------------- the configuration

MIN_ALLOC_INDEX == 0

MAX_ALLOC_INDEX == 1

COUNT_INDEX == 2

SAMPLE_EVERY_INDEX == 3

FUNCTION_INFO_INDEX == 4

ConfigIndices == 0..4

\* enum JemallocAllocFunctions
Functions == {"malloc", "calloc", "realloc", "mallocx", "rallocx", "xallocx"}

\* JemallocAllocFunctions::allocation_arg_index
AllocationArgIndex(f) ==
    CASE f = "malloc"  -> 0
      [] f = "calloc"  -> 1
      [] f = "realloc" -> 1
      [] f = "mallocx" -> 1
      [] f = "rallocx" -> 1
      [] f = "xallocx" -> 1

\* const ARG_INDEX: usize = 0 in try_malloc
ARG_INDEX == 0

Cpus == 0..(NumCpus - 1)

\* The pids of the traced threads and the ids get_stackid gives their stacks.
Pids == {1, 2}

StackIds == {1, 2}

\* ------------------------------------------------------------------- state

VARIABLES
    \* a Histogram on its own
    hist,        \* the Histogram under test
    hop,         \* the last operation on it: "new", "increment", "merge",
                 \* or "panicked" once an increment has panicked
    harg,        \* the argument of the last increment
    \* a HistogramKey on its own
    hkargs,      \* the (pid, stack_id, cpu) the key was made from
    hkey,        \* the HistogramKey under test
    hkop,        \* the last operation on it: "new", "into_parts"
    hkparts,     \* what into_parts returned
    \* the shared maps
    CONFIG,       \* CONFIG: cpu -> index -> u64
    HISTOGRAMS,  \* HistogramKey -> (cpu -> Histogram), a key absent or present
    STACKTRACES, \* the stack ids the stack-trace table holds
    function,    \* opt.function, the symbol the probe is attached to
    cseen,       \* while the values of a key are copied out of the map: cpu
                 \* -> the values each word of the shard has held since the
                 \* copy began
    \* the probe's last invocation
    calls,       \* cpu -> invocations of the probe so far
    passed,      \* cpu -> invocations that passed should_process
    pout,        \* where the last invocation returned, or "panicked"
    psize,       \* the size it read
    pret,        \* the u32 it returned
    eligible,    \* cpu -> invocations so far whose size is within the range
    \* main
    opt,         \* the options: skip_size, skip_count, order_by
    canceled,    \* the cancellation flag
    mpc,         \* main: "waiting" for Ctrl-C, "joining" the collector, "done",
                 \* "failed" (it returned an error) or "panicked"
    stats,       \* print_histogram: the merged map
    report,      \* print_histogram: the entries, in the order rendered
    hist_at_cancel, \* the histogram map when the cancellation flag was set
    \* the collector thread
    cpc,         \* "sleep", "iter", "read", "shard", "process", "drain",
                 \* "drain_stack", "returned" or "panicked"
    todo,        \* keys in the map when the sweep began, not visited yet
    visited,     \* keys the sweep has visited
    ckey,        \* the key being visited, or being removed by the clean-up
    cvals,       \* its per-CPU values, as read
    ccpu,        \* the index of the shard being looked at
    was_skiped_on_cpus,
    live_keys,   \* keys with a shard that passed the filter in this sweep
    keys_to_drop,
    allocations_stats,  \* EventProcessor: UnpackedHistogramKey -> Histogram
    resolved_traces,    \* EventProcessor: stack_id -> the resolved trace
    symbolized,         \* the stack ids resolve_stacktrace was called for
    late_process        \* calls of process begun with the flag already set

keyVars == <<hkargs, hkey, hkop, hkparts>>

histVars == <<hist, hop, harg, keyVars>>

mapVars == <<CONFIG, HISTOGRAMS, STACKTRACES, function, cseen>>

probeVars == <<calls, passed, pout, psize, pret, eligible>>

mainVars == <<opt, canceled, mpc, stats, report, hist_at_cancel>>

sweepVars ==
    <<cpc, todo, visited, ckey, cvals, ccpu, was_skiped_on_cpus, live_keys>>

processorVars ==
    <<allocations_stats, resolved_traces, symbolized, late_process>>

collectorVars == <<sweepVars, keys_to_drop, processorVars>>

vars == <<histVars, mapVars, probeVars, mainVars, collectorVars>>

\* ------------------------------------------- the Histogram operations alone

\* let key = HistogramKey::new(pid, stack_id, cpu)
KeyNew(pid, stack_id, cpu) ==
    /\ hkargs' = <<pid, stack_id, cpu>>
    /\ hkey' = HistogramKeyNew(pid, stack_id, cpu)
    /\ hkop' = "new"
    /\ UNCHANGED hkparts

\* key.into_parts()
KeyIntoParts ==
    /\ hkparts' = IntoParts(hkey)
    /\ hkop' = "into_parts"
    /\ UNCHANGED <<hkargs, hkey>>

\* A key made from (pid, stack_id, cpu), nothing done with it yet.
KeyIdle(pid, stack_id, cpu) ==
    /\ hkargs = <<pid, stack_id, cpu>>
    /\ hkey = HistogramKeyNew(pid, stack_id, cpu)
    /\ hkop = "new"
    /\ hkparts = [pid |-> 0, stack_id |-> 0, cpu |-> 0]

HistIdle ==
    /\ hist = HistogramNew
    /\ hop = "new"
    /\ harg = 0
    /\ KeyIdle(0, 0, 0)

\* let mut h = Histogram::new()
HistNew ==
    /\ hop # "panicked"
    /\ hist' = HistogramNew
    /\ hop' = "new"
    /\ harg' = 0

\* h.increment(v); a panic ends the thread that owns h
HistIncrement(v) ==
    /\ hop # "panicked"
    /\ harg' = v
    /\ \E overflow_checks \in Builds(IncrementPanics(hist, v, TRUE)) :
         IF IncrementPanics(hist, v, overflow_checks)
         THEN /\ hop' = "panicked"
              /\ hist' = hist
         ELSE /\ hop' = "increment"
              /\ hist' = Increment(hist, v)

\* The operands merge is tried with: every histogram of up to two samples,
\* and a copy of the histogram itself (Histogram is Copy).
MergeOperands(h) ==
    {Increment(Increment(HistogramNew, a), b) : a, b \in U64} \cup {h}

\* h.merge(&o)
HistMerge(o) ==
    /\ hop # "panicked"
    /\ hist' = Merge(hist, o)
    /\ hop' = "merge"
    /\ harg' = 0

\* ------------------------------------------------------------ the probe

\* main: config_map.set(..) for every index, the same value on every CPU
ConfigValues(min_alloc, max_alloc, sample_every, f) ==
    [c \in Cpus |->
        [i \in ConfigIndices |->
            CASE i = MIN_ALLOC_INDEX     -> min_alloc
              [] i = MAX_ALLOC_INDEX     -> max_alloc
              [] i = COUNT_INDEX         -> 0
              [] i = SAMPLE_EVERY_INDEX  -> sample_every
              [] i = FUNCTION_INFO_INDEX -> AllocationArgIndex(f)]]

\* The state once main has written the configuration and attached the probe.
ProbeIdle ==
    /\ HISTOGRAMS = << >>
    /\ cseen = << >>
    /\ STACKTRACES = {}
    /\ calls = [c \in Cpus |-> 0]
    /\ passed = [c \in Cpus |-> 0]
    /\ eligible = [c \in Cpus |-> 0]
    /\ pout = "none"
    /\ psize = 0
    /\ pret = 0

\* should_process panics on `cpu`: `*ctr += 1` on a counter at the maximum in
\* a build with overflow checks, before anything is stored.
ShouldProcessPanics(cpu, overflow_checks) ==
    /\ overflow_checks
    /\ CONFIG[cpu][SAMPLE_EVERY_INDEX] # 0
    /\ CONFIG[cpu][COUNT_INDEX] = U64_MAX

\* should_process, on `cpu`, when it does not panic: the new SAMPLE_COUNT of
\* that CPU. A counter at the maximum wraps to 0 (no overflow checks).
ShouldProcessCount(cpu) ==
    IF CONFIG[cpu][SAMPLE_EVERY_INDEX] = 0
    THEN CONFIG[cpu][COUNT_INDEX]
    ELSE WrappingAdd(CONFIG[cpu][COUNT_INDEX], 1)

\* A should_process that tests the counter before incrementing it.
ShouldProcessBeforeIncrement(cpu) ==
    IF CONFIG[cpu][SAMPLE_EVERY_INDEX] = 0
    THEN TRUE
    ELSE CONFIG[cpu][COUNT_INDEX] % CONFIG[cpu][SAMPLE_EVERY_INDEX] = 0

\* A should_process that passes the call before each K-th one.
ShouldProcessEarly(cpu) ==
    IF CONFIG[cpu][SAMPLE_EVERY_INDEX] = 0
    THEN TRUE
    ELSE ShouldProcessCount(cpu) % CONFIG[cpu][SAMPLE_EVERY_INDEX]
            = CONFIG[cpu][SAMPLE_EVERY_INDEX] - 1

\* should_process, when it does not panic: the verdict
ShouldProcess(cpu) ==
    IF CONFIG[cpu][SAMPLE_EVERY_INDEX] = 0
    THEN TRUE
    ELSE ShouldProcessCount(cpu) % CONFIG[cpu][SAMPLE_EVERY_INDEX] = 0

\* A range check with inclusive bounds.
OutOfRangeInclusive(size, min_size, max_size) ==
    size < min_size \/ size > max_size

\* A range check whose upper bound is inclusive.
OutOfRangeInclusiveMax(size, min_size, max_size) ==
    size <= min_size \/ size > max_size

\* try_malloc: size <= min_size || size >= max_size
OutOfRange(size, min_size, max_size) == size <= min_size \/ size >= max_size

\* An update that writes the slot of every CPU of the key.
UpdateHistAllCpus(map, size, pid, stack_id, cpu) ==
    LET key == HistogramKeyNew(pid, stack_id, cpu)
    IN  [k \in DOMAIN map \cup {key} |->
            IF k = key
            THEN [c \in Cpus |->
                    Increment(IF key \in DOMAIN map THEN map[key][c]
                              ELSE HistogramNew, size)]
            ELSE map[k]]

\* update_hist panics: hist.increment(size) on the element of the map does.
\* A new element is made from Histogram::new() and cannot.
UpdateHistPanics(map, size, pid, stack_id, cpu, overflow_checks) ==
    LET key == HistogramKeyNew(pid, stack_id, cpu)
    IN  /\ key \in DOMAIN map
        /\ IncrementPanics(map[key][cpu], size, overflow_checks)

\* update_hist: the map after a successful update of `key` on `cpu`. A new
\* element holds the inserted value in the slot of the inserting CPU and
\* zeroes in the others.
UpdateHist(map, size, pid, stack_id, cpu) ==
    LET key == HistogramKeyNew(pid, stack_id, cpu)
    IN  IF key \in DOMAIN map
        THEN [map EXCEPT ![key][cpu] = Increment(@, size)]
        ELSE [k \in DOMAIN map \cup {key} |->
                IF k = key
                THEN [c \in Cpus |->
                        IF c = cpu THEN Increment(HistogramNew, size)
                        ELSE HistogramNew]
                ELSE map[k]]

\* The sum of f[0..n-1]
RECURSIVE SumOver(_, _)
SumOver(f, n) == IF n = 0 THEN 0 ELSE SumOver(f, n - 1) + f[n - 1]

\* A probe that captures the stack before it applies the range filter.
ProbeStackFirst(cpu, pid, args, arg_ok, stack, insert_ok) ==
    LET size     == args[ARG_INDEX + 1]
        min_size == CONFIG[cpu][MIN_ALLOC_INDEX]
        max_size == CONFIG[cpu][MAX_ALLOC_INDEX]
        key      == HistogramKeyNew(pid, AsU32(stack), cpu)
    IN
    /\ calls[cpu] < MaxCalls
    /\ calls' = [calls EXCEPT ![cpu] = @ + 1]
    /\ eligible' = IF OutOfRange(size, min_size, max_size) THEN eligible
                   ELSE [eligible EXCEPT ![cpu] = @ + 1]
    /\ UNCHANGED function
    /\ \E overflow_checks \in
            Builds(\/ ShouldProcessPanics(cpu, TRUE)
                   \/ UpdateHistPanics(HISTOGRAMS, size, pid, AsU32(stack),
                                       cpu, TRUE)) :
         IF ShouldProcessPanics(cpu, overflow_checks)
         THEN /\ pout' = "panicked"
              /\ psize' = 0
              /\ UNCHANGED <<CONFIG, passed, pret, HISTOGRAMS, STACKTRACES>>
         ELSE
         /\ CONFIG' =
               [CONFIG EXCEPT ![cpu][COUNT_INDEX] = ShouldProcessCount(cpu)]
         /\ IF ~ShouldProcess(cpu)
            THEN /\ pout' = "sampling_skip"
                 /\ psize' = 0
                 /\ pret' = 0
                 /\ UNCHANGED <<passed, HISTOGRAMS, STACKTRACES>>
            ELSE
            /\ passed' = [passed EXCEPT ![cpu] = @ + 1]
            /\ IF ~arg_ok
               THEN /\ pout' = "arg_failure"
                    /\ psize' = 0
                    /\ pret' = 0
                    /\ UNCHANGED <<HISTOGRAMS, STACKTRACES>>
               ELSE
               /\ psize' = size
               /\ IF stack < 0
                  THEN /\ pout' = "stack_failure"
                       /\ pret' = 0
                       /\ UNCHANGED <<HISTOGRAMS, STACKTRACES>>
                  ELSE /\ STACKTRACES' = STACKTRACES \cup {AsU32(stack)}
                       /\ IF OutOfRange(size, min_size, max_size)
                          THEN /\ pout' = "out_of_range"
                               /\ pret' = 0
                               /\ UNCHANGED HISTOGRAMS
                          ELSE IF key \notin DOMAIN HISTOGRAMS /\ ~insert_ok
                          THEN /\ pout' = "insert_failure"
                               /\ pret' \in U32 \ {0}
                               /\ UNCHANGED HISTOGRAMS
                          ELSE IF UpdateHistPanics(HISTOGRAMS, size, pid, AsU32(stack), cpu,
                                                   overflow_checks)
                          THEN /\ pout' = "panicked"
                               /\ UNCHANGED <<pret, HISTOGRAMS>>
                          ELSE /\ pout' = "recorded"
                               /\ pret' = 0
                               /\ HISTOGRAMS' =
                                     UpdateHist(HISTOGRAMS, size, pid, AsU32(stack), cpu)

\* The uprobe `malloc` / try_malloc, run to its return on `cpu` by a thread
\* of `pid` calling the attached function with arguments `args`. `arg_ok`:
\* ctx.arg reads the argument; `stack`: the id get_stackid returns, or -1 when
\* it fails; `insert_ok`: HISTOGRAMS.insert of a new key succeeds. The value
\* returned is 0 from Ok(0) and Err(0), and the error of the insert as a u32,
\* which is not 0, from update_hist. A probe that panics (should_process or
\* hist.increment overflows, with overflow checks) stores nothing more and
\* returns no value.
Probe(cpu, pid, args, arg_ok, stack, insert_ok) ==
    LET size     == args[ARG_INDEX + 1]
        min_size == CONFIG[cpu][MIN_ALLOC_INDEX]
        max_size == CONFIG[cpu][MAX_ALLOC_INDEX]
        key      == HistogramKeyNew(pid, AsU32(stack), cpu)
    IN
    /\ calls[cpu] < MaxCalls
    /\ calls' = [calls EXCEPT ![cpu] = @ + 1]
    /\ eligible' = IF OutOfRange(size, min_size, max_size) THEN eligible
                   ELSE [eligible EXCEPT ![cpu] = @ + 1]
    /\ UNCHANGED function
    /\ \E overflow_checks \in
            Builds(\/ ShouldProcessPanics(cpu, TRUE)
                   \/ UpdateHistPanics(HISTOGRAMS, size, pid, AsU32(stack),
                                       cpu, TRUE)) :
         IF ShouldProcessPanics(cpu, overflow_checks)
         THEN /\ pout' = "panicked"
              /\ psize' = 0
              /\ UNCHANGED <<CONFIG, passed, pret, HISTOGRAMS, STACKTRACES>>
         ELSE
         /\ CONFIG' =
               [CONFIG EXCEPT ![cpu][COUNT_INDEX] = ShouldProcessCount(cpu)]
         /\ IF ~ShouldProcess(cpu)
            THEN /\ pout' = "sampling_skip"
                 /\ psize' = 0
                 /\ pret' = 0
                 /\ UNCHANGED <<passed, HISTOGRAMS, STACKTRACES>>
            ELSE
            /\ passed' = [passed EXCEPT ![cpu] = @ + 1]
            /\ IF ~arg_ok
               THEN /\ pout' = "arg_failure"
                    /\ psize' = 0
                    /\ pret' = 0
                    /\ UNCHANGED <<HISTOGRAMS, STACKTRACES>>
               ELSE
               /\ psize' = size
               /\ IF OutOfRange(size, min_size, max_size)
                  THEN /\ pout' = "out_of_range"
                       /\ pret' = 0
                       /\ UNCHANGED <<HISTOGRAMS, STACKTRACES>>
                  ELSE IF stack < 0
                  THEN /\ pout' = "stack_failure"
                       /\ pret' = 0
                       /\ UNCHANGED <<HISTOGRAMS, STACKTRACES>>
                  ELSE /\ STACKTRACES' = STACKTRACES \cup {AsU32(stack)}
                       /\ IF key \notin DOMAIN HISTOGRAMS /\ ~insert_ok
                          THEN /\ pout' = "insert_failure"
                               /\ pret' \in U32 \ {0}
                               /\ UNCHANGED HISTOGRAMS
                          ELSE IF UpdateHistPanics(HISTOGRAMS, size, pid, AsU32(stack), cpu,
                                                   overflow_checks)
                          THEN /\ pout' = "panicked"
                               /\ UNCHANGED <<pret, HISTOGRAMS>>
                          ELSE /\ pout' = "recorded"
                               /\ pret' = 0
                               /\ HISTOGRAMS' =
                                     UpdateHist(HISTOGRAMS, size, pid, AsU32(stack), cpu)

\* ------------------------------------------------- the collector thread

\* The values of the variables of main and of the collector before
\* spawn_collector, for given options.
CollectorIdle(skip_size, skip_count, order_by) ==
    /\ opt = [skip_size |-> skip_size, skip_count |-> skip_count,
              order_by |-> order_by]
    /\ canceled = FALSE
    /\ mpc = "waiting"
    /\ stats = << >>
    /\ report = << >>
    /\ hist_at_cancel = << >>
    /\ cpc = "sleep"
    /\ todo = {}
    /\ visited = {}
    /\ ckey = HistogramKeyNew(0, 0, 0)
    /\ cvals = << >>
    /\ ccpu = 0
    /\ was_skiped_on_cpus = TRUE
    /\ live_keys = {}
    /\ keys_to_drop = {}
    /\ allocations_stats = << >>
    /\ resolved_traces = << >>
    /\ symbolized = {}
    /\ late_process = 0

\* A skip test that drops a shard when either quantity is below its threshold.
SkipShardEither(h) ==
    h.total < opt.skip_size \/ TotalCount(h, FALSE) < opt.skip_count

\* spawn_collector: the retention filter's skip test on one shard panics:
\* `&&` evaluates total_count only when total is below skip_size.
SkipShardPanics(h, overflow_checks) ==
    h.total < opt.skip_size /\ TotalCount(h, overflow_checks) = Panic

\* spawn_collector: the retention filter's skip test on one shard, when it
\* does not panic (total_count is then the same in either build)
SkipShard(h) ==
    h.total < opt.skip_size /\ TotalCount(h, FALSE) < opt.skip_count

\* A loop head that begins the sweep without looking at the flag.
CollectorWakeUnchecked ==
    /\ cpc = "sleep"
    /\ cpc' = "iter"
    /\ was_skiped_on_cpus' = TRUE
    /\ live_keys' = {}
    /\ todo' = DOMAIN HISTOGRAMS
    /\ visited' = {}
    /\ UNCHANGED <<ckey, cvals, ccpu, keys_to_drop, processorVars>>
    /\ UNCHANGED <<histVars, mapVars, probeVars, mainVars>>

\* spawn_collector: thread::sleep; if canceled { return processor }; then the
\* sweep begins: was_skiped_on_cpus = true, buf.iter()
CollectorWake ==
    /\ cpc = "sleep"
    /\ IF canceled
       THEN /\ cpc' = "returned"
            /\ UNCHANGED <<todo, visited, was_skiped_on_cpus, live_keys>>
       ELSE /\ cpc' = "iter"
            /\ was_skiped_on_cpus' = TRUE
            /\ live_keys' = {}
            /\ todo' = DOMAIN HISTOGRAMS
            /\ visited' = {}
    /\ UNCHANGED <<ckey, cvals, ccpu, keys_to_drop, processorVars>>
    /\ UNCHANGED <<histVars, mapVars, probeVars, mainVars>>

\* The words of the shard h, each as the set that holds its value.
WordsOf(h) == [data |-> [b \in Buckets |-> {h.data[b]}], total |-> {h.total}]

\* The values the words of a shard have held, with those of h among them.
SeenJoin(seen, h) ==
    [data  |-> [b \in Buckets |-> seen.data[b] \cup {h.data[b]}],
     total |-> seen.total \cup {h.total}]

\* cseen after a probe has left the map as `map`: the probe takes no lock,
\* and the element being copied shows the copy what the probe stored.
SeenAfter(map) ==
    IF cpc = "read"
    THEN [c \in Cpus |-> SeenJoin(cseen[c], map[ckey][c])]
    ELSE cseen

\* What a copy of a shard can hold when its words have held the values
\* `seen` while it was made: the copy reads the shard word by word with no
\* lock against the stores of increment, so each word of it is a value that
\* word has held since the copy began, whichever the other words are.
ShardCopies(seen) ==
    {[data |-> d, total |-> t] :
        d \in {f \in [Buckets -> UNION {seen.data[b] : b \in Buckets}] :
                  \A b \in Buckets : f[b] \in seen.data[b]},
        t \in seen.total}

\* The values of the first n CPUs a lookup can return.
RECURSIVE CopiesTo(_, _)
CopiesTo(seen, n) ==
    IF n = 0 THEN {<< >>}
    ELSE {[c \in 0..(n - 1) |-> IF c = n - 1 THEN h ELSE v[c]] :
             v \in CopiesTo(seen, n - 1), h \in ShardCopies(seen[n - 1])}

\* The per-CPU values a lookup can return.
Copies(seen) == CopiesTo(seen, NumCpus)

\* buf.iter() yields the next key, in the order of the hash table: any key
\* not yet visited, and begins to copy its per-CPU values out of the map. A
\* key inserted during the sweep may be visited or not.
CollectorNextKey(k) ==
    /\ cpc = "iter"
    /\ k \in DOMAIN HISTOGRAMS \ visited
    /\ ckey' = k
    /\ cseen' = [c \in Cpus |-> WordsOf(HISTOGRAMS[k][c])]
    /\ cpc' = "read"
    /\ visited' = visited \cup {k}
    /\ todo' = todo \ {k}
    /\ UNCHANGED <<cvals, ccpu, was_skiped_on_cpus, live_keys, keys_to_drop>>
    /\ UNCHANGED processorVars
    /\ UNCHANGED <<CONFIG, HISTOGRAMS, STACKTRACES, function>>
    /\ UNCHANGED <<histVars, probeVars, mainVars>>

\* buf.iter() has the values of the key: the copy ends, holding for each
\* word a value the word has held while any number of probes ran.
CollectorLookup ==
    /\ cpc = "read"
    /\ cvals' \in Copies(cseen)
    /\ cseen' = << >>
    /\ ccpu' = 0
    /\ cpc' = "shard"
    /\ UNCHANGED <<todo, visited, ckey, was_skiped_on_cpus, live_keys>>
    /\ UNCHANGED <<keys_to_drop, processorVars>>
    /\ UNCHANGED <<CONFIG, HISTOGRAMS, STACKTRACES, function>>
    /\ UNCHANGED <<histVars, probeVars, mainVars>>

\* A shard loop that never takes a key out of keys_to_drop.
NextShardNeverUnqueue(skiped) ==
    IF ccpu + 1 < NumCpus
    THEN /\ ccpu' = ccpu + 1
         /\ cpc' = "shard"
         /\ UNCHANGED <<ckey, cvals, keys_to_drop>>
    ELSE /\ ccpu' = 0
         /\ cpc' = "iter"
         /\ ckey' = HistogramKeyNew(0, 0, 0)
         /\ cvals' = << >>
         /\ keys_to_drop' = IF skiped THEN keys_to_drop \cup {ckey}
                            ELSE keys_to_drop

\* The shard loop moves on from shard ccpu; after the last shard of the key,
\* the key is queued in or taken out of keys_to_drop as the flag `skiped` says.
NextShard(skiped) ==
    IF ccpu + 1 < NumCpus
    THEN /\ ccpu' = ccpu + 1
         /\ cpc' = "shard"
         /\ UNCHANGED <<ckey, cvals, keys_to_drop>>
    ELSE /\ ccpu' = 0
         /\ cpc' = "iter"
         /\ ckey' = HistogramKeyNew(0, 0, 0)
         /\ cvals' = << >>
         /\ keys_to_drop' = IF skiped THEN keys_to_drop \cup {ckey}
                            ELSE keys_to_drop \ {ckey}

\* A shard step that goes on to process without loading canceled.
CollectorShardUnchecked ==
    /\ cpc = "shard"
    /\ \E overflow_checks \in BOOLEAN :
         IF SkipShardPanics(cvals[ccpu], overflow_checks)
         THEN /\ cpc' = "panicked"
              /\ UNCHANGED <<ckey, cvals, ccpu, keys_to_drop>>
              /\ UNCHANGED <<was_skiped_on_cpus, live_keys>>
         ELSE IF SkipShard(cvals[ccpu])
              THEN /\ NextShard(was_skiped_on_cpus)
                   /\ UNCHANGED <<was_skiped_on_cpus, live_keys>>
              ELSE /\ was_skiped_on_cpus' = FALSE
                   /\ live_keys' = live_keys \cup {ckey}
                   /\ cpc' = "process"
                   /\ UNCHANGED <<ckey, cvals, ccpu, keys_to_drop>>
    /\ UNCHANGED <<todo, visited, processorVars>>
    /\ UNCHANGED <<histVars, mapVars, probeVars, mainVars>>

\* One shard up to the call of process: the retention filter (where an
\* overflowing total_count panics the thread in a build with overflow
\* checks), the flag, the load of canceled.
CollectorShard ==
    /\ cpc = "shard"
    /\ \E overflow_checks \in BOOLEAN :
         IF SkipShardPanics(cvals[ccpu], overflow_checks)
         THEN /\ cpc' = "panicked"
              /\ UNCHANGED <<ckey, cvals, ccpu, keys_to_drop>>
              /\ UNCHANGED <<was_skiped_on_cpus, live_keys>>
         ELSE IF SkipShard(cvals[ccpu])
              THEN /\ NextShard(was_skiped_on_cpus)
                   /\ UNCHANGED <<was_skiped_on_cpus, live_keys>>
              ELSE /\ was_skiped_on_cpus' = FALSE
                   /\ live_keys' = live_keys \cup {ckey}
                   /\ IF canceled
                      THEN cpc' = "returned"
                      ELSE cpc' = "process"
                   /\ UNCHANGED <<ckey, cvals, ccpu, keys_to_drop>>
    /\ UNCHANGED <<todo, visited, processorVars>>
    /\ UNCHANGED <<histVars, mapVars, probeVars, mainVars>>

\* EventProcessor::process: allocations_stats after it
ProcessStats(astats, key, event) ==
    [k \in DOMAIN astats \cup {key} |-> IF k = key THEN event ELSE astats[k]]

\* EventProcessor::process: resolved_traces after it. `resolve_ok`: the
\* symbolizer succeeds. A resolved trace is modelled by the pid its frames
\* were symbolized against.
ProcessTraces(rtraces, key, resolve_ok) ==
    IF key.stack_id \in DOMAIN rtraces THEN rtraces
    ELSE IF key.stack_id \notin STACKTRACES THEN rtraces
    ELSE IF ~resolve_ok THEN rtraces
    ELSE [t \in DOMAIN rtraces \cup {key.stack_id} |->
            IF t = key.stack_id THEN [pid |-> key.pid] ELSE rtraces[t]]

\* EventProcessor::process: whether it gets as far as calling
\* resolver.resolve_stacktrace: the cache entry is vacant and the stack-trace
\* table has the id.
Symbolizes(rtraces, key) ==
    key.stack_id \notin DOMAIN rtraces /\ key.stack_id \in STACKTRACES

\* processor.process(unpacked_key, hist, ..), then on to the next shard
CollectorProcess(resolve_ok) ==
    /\ cpc = "process"
    /\ late_process' = IF canceled THEN Min(late_process + 1, MaxLateProcess)
                       ELSE late_process
    /\ symbolized' =
           IF Symbolizes(resolved_traces, IntoParts(ckey))
           THEN symbolized \cup {IntoParts(ckey).stack_id}
           ELSE symbolized
    /\ allocations_stats' =
           ProcessStats(allocations_stats, IntoParts(ckey), cvals[ccpu])
    /\ resolved_traces' =
           ProcessTraces(resolved_traces, IntoParts(ckey), resolve_ok)
    /\ NextShard(was_skiped_on_cpus)
    /\ UNCHANGED <<todo, visited, was_skiped_on_cpus, live_keys>>
    /\ UNCHANGED <<histVars, mapVars, probeVars, mainVars>>

\* The end of buf.iter(), then the test of last_clean_up.elapsed(): `due` says
\* whether more than 60 s have passed since the last clean-up. A clean-up
\* with an empty queue goes straight back to the sleep.
CollectorSweepEnd(due) ==
    /\ cpc = "iter"
    /\ todo = {}
    /\ cpc' = IF due /\ keys_to_drop # {} THEN "drain" ELSE "sleep"
    /\ visited' = {}
    /\ UNCHANGED <<todo, ckey, cvals, ccpu, was_skiped_on_cpus, live_keys>>
    /\ UNCHANGED <<keys_to_drop, processorVars>>
    /\ UNCHANGED <<histVars, mapVars, probeVars, mainVars>>

\* The clean-up, first map call for a key: keys_to_drop.drain() yields a key
\* in the order of the hash set; buf.remove(&key).ok()
CollectorDrainKey(k) ==
    /\ cpc = "drain"
    /\ k \in keys_to_drop
    /\ keys_to_drop' = keys_to_drop \ {k}
    /\ ckey' = k
    /\ HISTOGRAMS' = [x \in DOMAIN HISTOGRAMS \ {k} |-> HISTOGRAMS[x]]
    /\ cpc' = "drain_stack"
    /\ UNCHANGED <<todo, visited, cvals, ccpu, was_skiped_on_cpus, live_keys>>
    /\ UNCHANGED processorVars
    /\ UNCHANGED <<histVars, CONFIG, STACKTRACES, function, cseen>>
    /\ UNCHANGED <<probeVars, mainVars>>

\* The clean-up, second map call for the key:
\* stack_trace_map.remove(&unpacked_key.stack_id).ok(); then the next key, or
\* the end of the clean-up.
CollectorDrainStack ==
    /\ cpc = "drain_stack"
    /\ STACKTRACES' = STACKTRACES \ {IntoParts(ckey).stack_id}
    /\ ckey' = HistogramKeyNew(0, 0, 0)
    /\ cpc' = IF keys_to_drop = {} THEN "sleep" ELSE "drain"
    /\ UNCHANGED <<todo, visited, cvals, ccpu, was_skiped_on_cpus, live_keys>>
    /\ UNCHANGED <<keys_to_drop, processorVars>>
    /\ UNCHANGED <<histVars, CONFIG, HISTOGRAMS, function, cseen>>
    /\ UNCHANGED <<probeVars, mainVars>>

\* ------------------------------------------------- main and the reporter

\* main: signal::ctrl_c().await; canceled.store(true)
Cancel ==
    /\ mpc = "waiting"
    /\ canceled' = TRUE
    /\ mpc' = "joining"
    /\ hist_at_cancel' = HISTOGRAMS
    /\ UNCHANGED <<opt, stats, report>>
    /\ UNCHANGED <<histVars, mapVars, probeVars, collectorVars>>

\* Every order a set can be iterated in.
RECURSIVE Orders(_)
Orders(S) ==
    IF S = {} THEN {<< >>}
    ELSE UNION {{<<x>> \o o : o \in Orders(S \ {x})} : x \in S}

\* A merge that keeps the shard seen last instead of adding the shards up.
RECURSIVE MergeFoldOverwrite(_, _, _)
MergeFoldOverwrite(astats, order, i) ==
    IF i = 0 THEN << >>
    ELSE LET acc  == MergeFoldOverwrite(astats, order, i - 1)
             key  == order[i]
             r    == AsReduced(key)
         IN  [x \in DOMAIN acc \cup {r} |->
                 IF x = r THEN astats[key] ELSE acc[x]]

\* EventProcessor::merge over allocations_stats iterated in `order`: the
\* first i keys folded into the map.
RECURSIVE MergeFold(_, _, _)
MergeFold(astats, order, i) ==
    IF i = 0 THEN << >>
    ELSE LET acc  == MergeFold(astats, order, i - 1)
             key  == order[i]
             stat == astats[key]
             r    == AsReduced(key)
         IN  IF r \in DOMAIN acc
             THEN [acc EXCEPT ![r] = Merge(@, stat)]
             ELSE [x \in DOMAIN acc \cup {r} |->
                     IF x = r THEN stat ELSE acc[x]]

MergeStats(astats, order) == MergeFold(astats, order, Len(order))

\* A sort key that is total under either ordering.
OrderKeyTotal(order_by, h, overflow_checks) == h.total

\* print_histogram: the sort key of an entry; hist.data.iter().sum::<u64>()
\* under Count
OrderKey(order_by, h, overflow_checks) ==
    IF order_by = "Count"
    THEN IterSum(h.data, MAX_TRACKED_ALLOCATION_SIZE, overflow_checks)
    ELSE h.total

\* sort_by_key panics: it calls the key function on every entry when there
\* are two or more, on none otherwise.
SortPanics(entries, order_by, overflow_checks) ==
    /\ Len(entries) >= 2
    /\ \E i \in 1..Len(entries) :
          OrderKey(order_by, entries[i].hist, overflow_checks) = Panic

\* sort_by_key when no key panics, a stable sort: x is put behind the entries
\* whose key is not larger.
RECURSIVE InsertSorted(_, _, _, _)
InsertSorted(sorted, x, order_by, overflow_checks) ==
    IF sorted = << >> THEN <<x>>
    ELSE IF OrderKey(order_by, sorted[Len(sorted)].hist, overflow_checks)
                <= OrderKey(order_by, x.hist, overflow_checks)
         THEN Append(sorted, x)
         ELSE Append(InsertSorted(SubSeq(sorted, 1, Len(sorted) - 1),
                                  x, order_by, overflow_checks),
                     sorted[Len(sorted)])

RECURSIVE SortByKey(_, _, _, _)
SortByKey(entries, n, order_by, overflow_checks) ==
    IF n = 0 THEN << >>
    ELSE InsertSorted(SortByKey(entries, n - 1, order_by, overflow_checks),
                      entries[n], order_by, overflow_checks)

\* stats.iter().filter(|(_, hist)| hist.total > 0), iterated in `order`
RECURSIVE FilterEntries(_, _, _)
FilterEntries(merged, order, n) ==
    IF n = 0 THEN << >>
    ELSE LET rest == FilterEntries(merged, order, n - 1)
         IN  IF merged[order[n]].total > 0
             THEN Append(rest, [key |-> order[n], hist |-> merged[order[n]]])
             ELSE rest

\* print_histogram: the entries rendered, in order, when the sort does not
\* panic
ReportEntries(merged, order, order_by, overflow_checks) ==
    LET entries == FilterEntries(merged, order, Len(order))
    IN  SortByKey(entries, Len(entries), order_by, overflow_checks)

\* print_histogram panics in the sort
ReportPanics(merged, order, order_by, overflow_checks) ==
    SortPanics(FilterEntries(merged, order, Len(order)), order_by,
               overflow_checks)

\* The free function print_histogram, which renders one entry, panics: it
\* sums the non-zero counters of the histogram.
RenderPanics(h, overflow_checks) ==
    IterSum(h.data, MAX_TRACKED_ALLOCATION_SIZE, overflow_checks) = Panic

\* The rendering loop over the sorted entries: the index of the first entry
\* whose rendering panics, 0 if none does.
FirstRenderPanic(sorted, overflow_checks) ==
    LET bad == {i \in 1..Len(sorted) :
                   RenderPanics(sorted[i].hist, overflow_checks)}
    IN  IF bad = {} THEN 0
        ELSE CHOOSE i \in bad : \A j \in bad : i <= j

\* write_flame_graph panics: under Count it sums the counters of every entry
\* of allocations_stats that has a resolved trace.
FlameGraphPanics(astats, rtraces, mode, overflow_checks) ==
    /\ mode = "Count"
    /\ \E k \in DOMAIN astats :
          /\ k.stack_id \in DOMAIN rtraces
          /\ IterSum(astats[k].data, MAX_TRACKED_ALLOCATION_SIZE,
                     overflow_checks) = Panic

\* No write of print_histogram fails.
NoWriteFails == -1

\* print_histogram from the merged map on: what main ends in and the entries
\* rendered. `write_fails`: the number of entries rendered when a write
\* returns an error, which `?` hands on to main (the first writeln to the
\* pager, before the sort, and CsvWriter::new, after it, with none rendered;
\* a write to the pager or to the CSV file in the loop; the flush of the CSV
\* file, and the creation and the writing of the flame graph, with all
\* rendered), or NoWriteFails. In a build with overflow checks a sum that
\* overflows panics: in the sort nothing has been rendered yet, in the
\* rendering loop the entries before the one that panics have, in the flame
\* graph (`flame_graph`: the caller gave a path for one) all of them have.
PrintOutcome(merged, order, order_by, astats, rtraces, overflow_checks,
             flame_graph, write_fails) ==
    IF write_fails = 0
    THEN [mpc |-> "failed", report |-> << >>]
    ELSE IF ReportPanics(merged, order, order_by, overflow_checks)
    THEN [mpc |-> "panicked", report |-> << >>]
    ELSE LET sorted == ReportEntries(merged, order, order_by, overflow_checks)
             bad == FirstRenderPanic(sorted, overflow_checks)
         IN  IF write_fails # NoWriteFails /\ (bad = 0 \/ write_fails < bad)
             THEN [mpc |-> "failed",
                   report |-> SubSeq(sorted, 1, Min(write_fails, Len(sorted)))]
             ELSE IF bad # 0
             THEN [mpc |-> "panicked", report |-> SubSeq(sorted, 1, bad - 1)]
             ELSE IF /\ flame_graph
                     /\ FlameGraphPanics(astats, rtraces, order_by,
                                         overflow_checks)
             THEN [mpc |-> "panicked", report |-> sorted]
             ELSE [mpc |-> "done", report |-> sorted]

\* main: handle.join().expect(..), which panics if the collector thread
\* panicked; then print_histogram on the processor the collector returned,
\* whose error main returns. Both maps are iterated in the order of their
\* hash tables; the outcome is that of a build with or without overflow
\* checks, with or without a flame graph, with or without a write that
\* fails.
Report ==
    /\ mpc = "joining"
    /\ cpc \in {"returned", "panicked"}
    /\ IF cpc = "panicked"
       THEN /\ mpc' = "panicked"
            /\ UNCHANGED <<stats, report>>
       ELSE \E merged \in {MergeStats(allocations_stats, o1) :
                              o1 \in Orders(DOMAIN allocations_stats)} :
              /\ stats' = merged
              /\ \E out \in {PrintOutcome(merged, o2, opt.order_by,
                                           allocations_stats, resolved_traces,
                                           overflow_checks, flame_graph,
                                           write_fails) :
                                 o2 \in Orders(DOMAIN merged),
                                 overflow_checks \in BOOLEAN,
                                 flame_graph \in BOOLEAN,
                                 write_fails \in
                                   {NoWriteFails} \cup
                                   0..Cardinality(DOMAIN merged)} :
                   /\ mpc' = out.mpc
                   /\ report' = out.report
    /\ UNCHANGED <<opt, canceled, hist_at_cancel>>
    /\ UNCHANGED <<histVars, mapVars, probeVars, collectorVars>>

\* ------------------------------------------------------- specifications

\* The arguments the target calls the function with: the first takes every
\* value, the second one of two.
FirstArgs == U64

SecondArgs == {1, 2}

\* A call of the attached function by the target.
Call(first, second) ==
    /\ SumOver(passed, NumCpus) < MaxSamples
    /\ \E cpu \in Cpus, pid \in Pids, a0 \in first, a1 \in second,
          arg_ok \in BOOLEAN, stack \in StackIds \cup {-1},
          insert_ok \in BOOLEAN :
            Probe(cpu, pid, <<a0, a1>>, arg_ok, stack, insert_ok)
    /\ cseen' = SeenAfter(HISTOGRAMS')
    /\ UNCHANGED <<histVars, mainVars, collectorVars>>

\* The Histogram operations alone.
HistInit ==
    /\ HistIdle
    /\ function = "malloc"
    /\ CONFIG = ConfigValues(0, U64_MAX, 1, "malloc")
    /\ ProbeIdle
    /\ CollectorIdle(1, 1, "Count")

HistNewStep ==
    /\ HistNew
    /\ UNCHANGED <<keyVars, mapVars, probeVars, mainVars, collectorVars>>

HistIncrementStep ==
    /\ \E v \in U64 : HistIncrement(v)
    /\ UNCHANGED <<keyVars, mapVars, probeVars, mainVars, collectorVars>>

HistMergeStep ==
    /\ \E o \in MergeOperands(hist) : HistMerge(o)
    /\ UNCHANGED <<keyVars, mapVars, probeVars, mainVars, collectorVars>>

HistNext == HistNewStep \/ HistIncrementStep \/ HistMergeStep

SpecHist == HistInit /\ [][HistNext]_vars

\* One shard of the histogram map under the writes of the probe on its CPU:
\* update_hist makes it with Histogram::new and only ever increments it.
ShardNext == HistIncrementStep

SpecShard == HistInit /\ [][ShardNext]_vars

\* The HistogramKey operations alone, over every pid, stack id and cpu.
KeyInit ==
    /\ hist = HistogramNew
    /\ hop = "new"
    /\ harg = 0
    /\ \E pid \in U32, stack_id \in U32, cpu \in U32 : KeyIdle(pid, stack_id, cpu)
    /\ function = "malloc"
    /\ CONFIG = ConfigValues(0, U64_MAX, 1, "malloc")
    /\ ProbeIdle
    /\ CollectorIdle(1, 1, "Count")

KeyNewStep ==
    /\ \E pid \in U32, stack_id \in U32, cpu \in U32 : KeyNew(pid, stack_id, cpu)
    /\ UNCHANGED <<hist, hop, harg, mapVars, probeVars, mainVars, collectorVars>>

KeyIntoPartsStep ==
    /\ KeyIntoParts
    /\ UNCHANGED <<hist, hop, harg, mapVars, probeVars, mainVars, collectorVars>>

KeyNext == KeyNewStep \/ KeyIntoPartsStep

SpecKey == KeyInit /\ [][KeyNext]_vars

\* The probe alone, attached to malloc, under several configurations.
ProbeInit ==
    /\ HistIdle
    /\ function = "malloc"
    /\ \E range \in {<<0, U64_MAX>>, <<1, U64_MAX - 1>>},
          sample_every \in 1..MaxSampleEvery :
            CONFIG = ConfigValues(range[1], range[2], sample_every, function)
    /\ ProbeIdle
    /\ CollectorIdle(1, 1, "Count")

MallocCall == Call(FirstArgs, {0})

ProbeNext == MallocCall

SpecProbe == ProbeInit /\ [][ProbeNext]_vars

\* The sampling step up to and across the wrap of SAMPLE_COUNT: the probe
\* attached to malloc with --min-alloc-size 1, for each --sample-every, is
\* called with a size the range filter rejects and one it accepts, more often
\* than the counter of a CPU has values.
MaxSampleCalls == 10

SampleSizes == {1, 2}

SampleInit ==
    /\ HistIdle
    /\ function = "malloc"
    /\ \E sample_every \in 1..MaxSampleEvery :
          CONFIG = ConfigValues(1, U64_MAX, sample_every, function)
    /\ ProbeIdle
    /\ CollectorIdle(1, 1, "Count")

SampleCall ==
    /\ SumOver(calls, NumCpus) < MaxSampleCalls
    /\ \E cpu \in Cpus, size \in SampleSizes, arg_ok \in BOOLEAN :
          Probe(cpu, 1, <<size, 0>>, arg_ok, 1, TRUE)
    /\ cseen' = SeenAfter(HISTOGRAMS')
    /\ UNCHANGED <<histVars, mainVars, collectorVars>>

SampleNext == SampleCall

SpecSample == SampleInit /\ [][SampleNext]_vars

\* The probe attached to any of the six functions, sampling every call and
\* accepting every size.
AttachInit ==
    /\ HistIdle
    /\ function \in Functions
    /\ CONFIG = ConfigValues(0, U64_MAX, 1, function)
    /\ ProbeIdle
    /\ CollectorIdle(1, 1, "Count")

FunctionCall == Call(FirstArgs, SecondArgs)

AttachNext == FunctionCall

SpecAttach == AttachInit /\ [][AttachNext]_vars

\* The whole program: the probe attached to malloc, the collector thread and
\* main, for several settings of --skip-size, --skip-count and --order-by.
SkipSettings == {<<1, 2>>, <<0, 0>>, <<4, 2>>}

Init ==
    /\ HistIdle
    /\ function = "malloc"
    /\ CONFIG = ConfigValues(0, U64_MAX, 1, function)
    /\ ProbeIdle
    /\ \E skip \in SkipSettings, order_by \in {"Count", "Traffic"} :
          CollectorIdle(skip[1], skip[2], order_by)

\* The sizes the target asks malloc for in a whole run: a small one, a larger
\* one, and one beyond the tracked range (two of which saturate total).
RunSizes == {1, 3, U64_MAX - 3}

RunCall == Call(RunSizes, {0})

CollectorNextKeyStep == \E k \in DOMAIN HISTOGRAMS : CollectorNextKey(k)

CollectorProcessStep == \E resolve_ok \in BOOLEAN : CollectorProcess(resolve_ok)

CollectorSweepEndStep == \E due \in BOOLEAN : CollectorSweepEnd(due)

CollectorDrainKeyStep == \E k \in keys_to_drop : CollectorDrainKey(k)

CollectorNext ==
    \/ CollectorWake
    \/ CollectorNextKeyStep
    \/ CollectorLookup
    \/ CollectorShard
    \/ CollectorProcessStep
    \/ CollectorSweepEndStep
    \/ CollectorDrainKeyStep
    \/ CollectorDrainStack

Next ==
    \/ RunCall
    \/ CollectorNext
    \/ Cancel
    \/ Report

Spec == Init /\ [][Next]_vars

\* The settings the fair runs start from: one under which shards fail the
\* filter, so that keys are queued and the clean-up has work, and one under
\* which every shard passes.
FairSkipSettings == {<<4, 2>>, <<0, 0>>}

FairInit ==
    /\ HistIdle
    /\ function = "malloc"
    /\ CONFIG = ConfigValues(0, U64_MAX, 1, function)
    /\ ProbeIdle
    /\ \E skip \in FairSkipSettings : CollectorIdle(skip[1], skip[2], "Count")

\* The whole program where the collector thread is scheduled and each of its
\* steps (the sleep, a map read, a map removal, a symbolization) ends.
FairSpec == FairInit /\ [][Next]_vars /\ WF_vars(CollectorNext)

\* The sizes the target asks malloc for, in turn, in such a run.
LookupSizes == <<1, 2>>

\* One call stack of one process on one CPU calls malloc again and again,
\* under thresholds that a shard can fail, while the collector sweeps.
LookupInit ==
    /\ HistIdle
    /\ function = "malloc"
    /\ CONFIG = ConfigValues(0, U64_MAX, 1, function)
    /\ ProbeIdle
    /\ CollectorIdle(4, 2, "Count")

LookupCall ==
    /\ calls[0] < MaxLookupCalls
    /\ Probe(0, 1, <<LookupSizes[(calls[0] % Len(LookupSizes)) + 1], 0>>,
             TRUE, 1, TRUE)
    /\ cseen' = SeenAfter(HISTOGRAMS')
    /\ UNCHANGED <<histVars, mainVars, collectorVars>>

LookupNext ==
    \/ LookupCall
    \/ CollectorNext
    \/ Cancel

SpecLookup == LookupInit /\ [][LookupNext]_vars

\* The same where the collector thread is scheduled and each of its steps
\* ends.
FairLookup == LookupInit /\ [][LookupNext]_vars /\ WF_vars(CollectorNext)

\* h after n calls of increment(value) that do not panic.
RECURSIVE IncrementTimes(_, _, _)
IncrementTimes(h, value, n) ==
    IF n = 0 THEN h ELSE Increment(IncrementTimes(h, value, n - 1), value)

\* The numbers of samples of the sizes 1, 2 and 2^MAX_TRACKED_ALLOCATION_SIZE
\* in the shards the reporter is given.
ReportCounts == <<{0, 1, 2, 5}, {0, 5}, {0, 1}>>

\* Shards the probe makes: Histogram::new() incremented by samples of three
\* sizes, one per bucket and one beyond the tracked range.
ReportShards ==
    {IncrementTimes(
        IncrementTimes(IncrementTimes(HistogramNew, 1, n0), 2, n1),
        2^MAX_TRACKED_ALLOCATION_SIZE, n2) :
        n0 \in ReportCounts[1], n1 \in ReportCounts[2], n2 \in ReportCounts[3]}

\* The keys the reporter is given statistics for: one call stack of one
\* process seen on both CPUs, one of another process seen on one.
ReportKeys ==
    {[pid |-> 1, stack_id |-> 1, cpu |-> 0],
     [pid |-> 1, stack_id |-> 1, cpu |-> 1],
     [pid |-> 2, stack_id |-> 2, cpu |-> 0]}

\* The reporter alone: main joins a collector that has returned, or has
\* panicked, with an EventProcessor that holds shards the probe makes, with
\* their traces resolved or not, and prints the histogram.
ReportInit ==
    /\ HistIdle
    /\ function = "malloc"
    /\ CONFIG = ConfigValues(0, U64_MAX, 1, function)
    /\ ProbeIdle
    /\ \E order_by \in {"Count", "Traffic"} :
          opt = [skip_size |-> 0, skip_count |-> 0, order_by |-> order_by]
    /\ canceled = TRUE
    /\ mpc = "joining"
    /\ stats = << >>
    /\ report = << >>
    /\ hist_at_cancel = << >>
    /\ cpc \in {"returned", "panicked"}
    /\ todo = {}
    /\ visited = {}
    /\ ckey = HistogramKeyNew(0, 0, 0)
    /\ cvals = << >>
    /\ ccpu = 0
    /\ was_skiped_on_cpus = FALSE
    /\ live_keys = {}
    /\ keys_to_drop = {}
    /\ \E keys \in SUBSET ReportKeys :
          allocations_stats \in [keys -> ReportShards]
    /\ \E resolved \in BOOLEAN :
          /\ symbolized = IF resolved
                          THEN {k.stack_id : k \in DOMAIN allocations_stats}
                          ELSE {}
          /\ resolved_traces =
                [t \in symbolized |->
                    [pid |-> (CHOOSE k \in DOMAIN allocations_stats :
                                 k.stack_id = t).pid]]
    /\ late_process = 0

ReportNext == Report

SpecReport == ReportInit /\ [][ReportNext]_vars

\* ------------------------------------------------------------------ claims

\* What increment(v) is to do to h, giving h2: nothing for v = 0; otherwise
\* the one bucket i with 2^i <= v < 2^(i+1) grows by 1, the others stay and
\* total grows by v, stopping at the maximum.
IncrementReference(h, v, h2) ==
    IF v = 0
    THEN h2 = h
    ELSE /\ \E i \in Buckets :
              /\ 2^i <= v /\ v < 2^(i + 1)
              /\ h2.data[i] = h.data[i] + 1
              /\ \A j \in Buckets \ {i} : h2.data[j] = h.data[j]
         /\ h2.total = Min(h.total + v, U64_MAX)

\* The bucket v falls in is below the maximum.
TargetBelowMax(h, v) ==
    \A i \in Buckets : (2^i <= v /\ v < 2^(i + 1)) => h.data[i] < U64_MAX

\* C1: for every histogram and every v below 2^MAX_TRACKED_ALLOCATION_SIZE
\* whose target bucket is below its maximum, increment(v) does what the
\* reference says: v = 0 changes nothing; otherwise exactly data[floor(log2 v)]
\* grows by 1, every other bucket is unchanged and total grows by v,
\* saturating.
C1_IncrementMatchesReference ==
    [][(/\ hop' = "increment"
        /\ harg' < 2^MAX_TRACKED_ALLOCATION_SIZE
        /\ TargetBelowMax(hist, harg'))
       => IncrementReference(hist, harg', hist')]_vars

C1_Witness ==
    /\ hop = "increment"
    /\ harg = 3
    /\ hist.data[1] = 2
    /\ hist.data[0] = 0
    /\ hist.total = 6

\* C2: increment saturates both the bucket counter and total: a bucket that
\* holds the maximum stays at the maximum when incremented, and total becomes
\* the maximum when total + v exceeds it.
C2_IncrementSaturates ==
    [][(hop' = "increment" /\ harg' >= 1)
       => /\ \A i \in Buckets :
                (2^i <= harg' /\ harg' < 2^(i + 1) /\ hist.data[i] = U64_MAX)
                => hist'.data[i] = U64_MAX
          /\ hist'.total = Min(hist.total + harg', U64_MAX)]_vars

\* C3 as stated: in every histogram reached from new() by increments and
\* merges, every counter is at most total and the sum of the counters is at
\* most total, saturated or not.
C3_CountersAndSumBelowTotal ==
    /\ \A i \in Buckets : hist.data[i] <= hist.total
    /\ SumCounters(hist) <= hist.total

\* C3 as amended: every counter is at most total in every reachable
\* histogram; the sum of the counters is at most total (and total_count
\* computes it without overflow) in every reachable histogram whose total is
\* below the maximum.
C3_CountersBelowTotal ==
    /\ \A i \in Buckets : hist.data[i] <= hist.total
    /\ hist.total < U64_MAX =>
          /\ SumCounters(hist) <= hist.total
          /\ \A overflow_checks \in BOOLEAN :
                TotalCount(hist, overflow_checks) = SumCounters(hist)

C3_Witness ==
    /\ hop = "merge"
    /\ hist.total = U64_MAX
    /\ hist.data[0] = U64_MAX
    /\ hist.data[1] = 0

\* C4: an invocation that passed sampling and read size s changes the
\* histogram map only if MIN_ALLOC < s < MAX_ALLOC; a size equal to either
\* bound, or outside them, is dropped at the range filter and records
\* nothing.
C4_RangeFilterExclusive ==
    [][\A c \in Cpus :
        (calls'[c] # calls[c] /\ pout' \notin {"sampling_skip", "arg_failure"})
        => LET in_range == /\ CONFIG[c][MIN_ALLOC_INDEX] < psize'
                           /\ psize' < CONFIG[c][MAX_ALLOC_INDEX]
           IN  /\ HISTOGRAMS' # HISTOGRAMS => in_range
               /\ ~in_range => /\ pout' = "out_of_range"
                                /\ HISTOGRAMS' = HISTOGRAMS
                                /\ STACKTRACES' = STACKTRACES]_vars

C4_Witness ==
    /\ pout = "out_of_range"
    /\ psize = CONFIG[0][MAX_ALLOC_INDEX]
    /\ CONFIG[0][MAX_ALLOC_INDEX] < U64_MAX
    /\ DOMAIN HISTOGRAMS # {}

\* C5 (as stated): with SAMPLE_EVERY = K >= 1 and SAMPLE_COUNT starting at
\* 0, of the first n invocations on a CPU exactly floor(n / K) pass the
\* sampling step, for every n, whatever the other CPUs did.
C5_EveryKthPasses ==
    \A c \in Cpus :
        /\ CONFIG[c][SAMPLE_EVERY_INDEX] >= 1
        /\ passed[c] = calls[c] \div CONFIG[c][SAMPLE_EVERY_INDEX]

\* C5 (amended): with SAMPLE_EVERY = K >= 1 and SAMPLE_COUNT starting at 0,
\* of the first n invocations on a CPU exactly floor(n / K) pass the sampling
\* step, whatever the other CPUs did, for n up to the largest u64: up to
\* there SAMPLE_COUNT is n. The next invocation overflows the counter: either
\* it wraps to 0 and the invocation passes whatever K is, or the probe
\* panics, the counter stays and the invocation does not pass.
C5_EveryKthPassesUntilWrap ==
    \A c \in Cpus :
        LET K == CONFIG[c][SAMPLE_EVERY_INDEX]
        IN  /\ K >= 1
            /\ calls[c] <= U64_MAX
                => /\ passed[c] = calls[c] \div K
                   /\ CONFIG[c][COUNT_INDEX] = calls[c]
            /\ calls[c] = U64_MAX + 1
                => \/ /\ CONFIG[c][COUNT_INDEX] = 0
                      /\ passed[c] = U64_MAX \div K + 1
                   \/ /\ CONFIG[c][COUNT_INDEX] = U64_MAX
                      /\ passed[c] = U64_MAX \div K

\* The largest number of invocations the amended count covers, on one CPU,
\* with fewer on the other.
C5_Witness ==
    /\ CONFIG[0][SAMPLE_EVERY_INDEX] = 3
    /\ calls[0] = U64_MAX
    /\ passed[0] = 2
    /\ CONFIG[0][COUNT_INDEX] = U64_MAX
    /\ calls[1] = 2
    /\ passed[1] = 0

\* The keys of allocations_stats that reduce to r.
ShardsOf(r) == {k \in DOMAIN allocations_stats : AsReduced(k) = r}

\* The sum of f over the finite set S.
RECURSIVE SetSum(_, _)
SetSum(f, S) ==
    IF S = {} THEN 0
    ELSE LET x == CHOOSE y \in S : TRUE IN f[x] + SetSum(f, S \ {x})

\* C6: with --skip-count c and --skip-size 1, a call stack none of whose
\* per-CPU shards has a sum of counters of c or more does not appear in the
\* report: every reported stack has a shard, as processed or as in the map,
\* with at least c allocations.
C6_SkipCountDropsSmallStacks ==
    (mpc = "done" /\ opt.skip_size = 1)
    => \A i \in 1..Len(report) :
          \/ \E k \in ShardsOf(report[i].key) :
                 SumCounters(allocations_stats[k]) >= opt.skip_count
          \/ \E k \in DOMAIN HISTOGRAMS, c \in Cpus :
                 /\ AsReduced(IntoParts(k)) = report[i].key
                 /\ SumCounters(HISTOGRAMS[k][c]) >= opt.skip_count

\* C7: the size the probe records for a call is the call's argument at the
\* index the function mapping gives: argument 0 for malloc, argument 1 for
\* calloc, realloc, mallocx, rallocx and xallocx.
C7_SizeIsMappedArgument ==
    [][\A cpu \in Cpus, pid \in Pids, a0 \in FirstArgs, a1 \in SecondArgs,
          arg_ok \in BOOLEAN, stack \in StackIds \cup {-1},
          insert_ok \in BOOLEAN :
            (/\ Probe(cpu, pid, <<a0, a1>>, arg_ok, stack, insert_ok)
             /\ pout' = "recorded")
            => psize' = <<a0, a1>>[AllocationArgIndex(function) + 1]]_vars

\* C8: merge yields exactly one entry per distinct (pid, stack_id) of
\* allocations_stats, each bucket and the total of which is the saturating
\* sum over the CPUs of that (pid, stack_id), whatever the order the map is
\* iterated in; an entry with a single CPU is that CPU's histogram.
C8_MergeSumsShards ==
    mpc = "done"
    => /\ DOMAIN stats = {AsReduced(k) : k \in DOMAIN allocations_stats}
       /\ \A r \in DOMAIN stats :
            /\ stats[r].total =
                  Min(SetSum([k \in ShardsOf(r) |-> allocations_stats[k].total],
                             ShardsOf(r)), U64_MAX)
            /\ \A b \in Buckets :
                  stats[r].data[b] =
                    Min(SetSum([k \in ShardsOf(r) |->
                                  allocations_stats[k].data[b]],
                               ShardsOf(r)), U64_MAX)
            /\ \A k \in ShardsOf(r) :
                  ShardsOf(r) = {k} => stats[r] = allocations_stats[k]

C8_Witness ==
    /\ mpc = "done"
    /\ \E r \in DOMAIN stats :
          /\ Cardinality(ShardsOf(r)) = 2
          /\ stats[r].total = U64_MAX
          /\ \A k \in ShardsOf(r) : allocations_stats[k].total < U64_MAX

\* The ordering key of the reporter: the sum of the bucket counters under
\* Count, total under Traffic.
OrderingKey(h) == IF opt.order_by = "Count" THEN SumCounters(h) ELSE h.total

\* The ordering key as a u64 holds it: under Count the sum of the bucket
\* counters modulo 2^64.
OrderingKeyU64(h) == OrderingKey(h) % (U64_MAX + 1)

\* The merged entries with total > 0.
MergedEntries ==
    {[key |-> r, hist |-> stats[r]] :
        r \in {x \in DOMAIN stats : stats[x].total > 0}}

C11_SymbolizerOncePerStack ==
    [][(cpc = "process" /\ cpc' # "process"
            /\ Symbolizes(resolved_traces, IntoParts(ckey)))
        => IntoParts(ckey).stack_id \notin symbolized]_vars

\* C12: merge is commutative and associative, saturated counters and totals
\* included: for the histogram a at hand and all histograms b and c, merging
\* b into a gives what merging a into b gives, and (a merge b) merge c is
\* a merge (b merge c).
C12_MergeCommutativeAssociative ==
    \A b, c \in MergeOperands(hist) :
        /\ Merge(hist, b) = Merge(b, hist)
        /\ Merge(Merge(hist, b), c) = Merge(hist, Merge(b, c))
        /\ Merge(Merge(b, hist), c) = Merge(b, Merge(hist, c))

C12_Witness ==
    /\ hop = "merge"
    /\ hist.total = U64_MAX
    /\ hist.data[0] = U64_MAX
    /\ hist.data[1] > 0

\* C13: for all pid, stack_id and cpu of 32 bits,
\* HistogramKey::new(pid, stack_id, cpu).into_parts() is (pid, stack_id, cpu):
\* no field bleeds into another.
C13_KeyRoundTrip ==
    [][hkop' = "into_parts"
        => hkparts' = [pid |-> hkargs[1], stack_id |-> hkargs[2],
                       cpu |-> hkargs[3]]]_vars

C13_Witness ==
    /\ hkop = "into_parts"
    /\ hkargs = <<2^U32Bits - 1, 2^U32Bits - 1, 0>>
    /\ hkparts = [pid |-> 2^U32Bits - 1, stack_id |-> 2^U32Bits - 1, cpu |-> 0]

\* The probe is configured with MIN_ALLOC = 0 and MAX_ALLOC = u64::MAX.
AcceptAllRange ==
    \A c \in Cpus : /\ CONFIG[c][MIN_ALLOC_INDEX] = 0
                    /\ CONFIG[c][MAX_ALLOC_INDEX] = U64_MAX

\* The invocation that ended in outcome `out` got as far as the range filter.
ReachedRangeFilter(out) ==
    out \in {"out_of_range", "stack_failure", "insert_failure", "recorded"}

\* C14 (as stated): with MIN_ALLOC = 0 and MAX_ALLOC = u64::MAX the range
\* filter accepts every size in [1, u64::MAX], u64::MAX included.
C14_AcceptsEveryNonZeroSize ==
    [][(AcceptAllRange /\ ReachedRangeFilter(pout') /\ psize' \in 1..U64_MAX)
        => pout' # "out_of_range"]_vars

\* C14 (amended): with MIN_ALLOC = 0 and MAX_ALLOC = u64::MAX the range filter
\* accepts exactly the sizes in [1, u64::MAX - 1]; 0 and u64::MAX are dropped.
C14_AcceptsAllButZeroAndMax ==
    [][(AcceptAllRange /\ ReachedRangeFilter(pout'))
        => (pout' # "out_of_range" <=> psize' \in 1..(U64_MAX - 1))]_vars

C14_Witness ==
    /\ AcceptAllRange
    /\ pout = "recorded"
    /\ psize = U64_MAX - 1

\* C15: for every v of 2^MAX_TRACKED_ALLOCATION_SIZE or more, increment(v)
\* changes no bucket counter and adds v to total, saturating.
C15_LargeValueOnlyInTotal ==
    [][(hop' = "increment" /\ harg' >= 2^MAX_TRACKED_ALLOCATION_SIZE)
        => /\ hist'.data = hist.data
           /\ hist'.total = Min(hist.total + harg', U64_MAX)]_vars

\* A histogram with total > 0 and a sum of counters of 0, after such an
\* increment.
C15_Witness ==
    /\ hop = "increment"
    /\ harg >= 2^MAX_TRACKED_ALLOCATION_SIZE
    /\ hist.total > 0
    /\ SumCounters(hist) = 0

\* The invocation that ended in outcome `out` passed the sampling step and the
\* range filter.
PassedRangeFilter(out) ==
    out \in {"stack_failure", "insert_failure", "recorded"}

\* C16 (as stated): with SAMPLE_EVERY = K the probe records exactly every
\* K-th eligible call on its CPU, an eligible call being one whose size
\* passes the range filter, however many ineligible calls are interleaved:
\* the invocations that get past sampling and range filter are the eligible
\* ones whose number on the CPU is a multiple of K.
C16_EveryKthEligibleCall ==
    [][\A c \in Cpus :
         calls'[c] # calls[c]
         => /\ PassedRangeFilter(pout')
                => eligible'[c] % CONFIG[c][SAMPLE_EVERY_INDEX] = 0
            /\ (/\ eligible'[c] # eligible[c]
                /\ eligible'[c] % CONFIG[c][SAMPLE_EVERY_INDEX] = 0)
                => (PassedRangeFilter(pout') \/ pout' = "arg_failure")]_vars

\* C16 (amended): with SAMPLE_EVERY = K the invocations that get past the
\* sampling step are exactly every K-th invocation on the CPU, eligible or
\* not, up to the invocation whose number is the largest u64 (the next one
\* overflows SAMPLE_COUNT); an invocation is recorded, or gets as far as the
\* stack capture, only if it is one of them and its size passes the range
\* filter.
C16_EveryKthCall ==
    [][\A c \in Cpus :
         (calls'[c] # calls[c] /\ calls'[c] <= U64_MAX)
         => /\ pout' # "sampling_skip"
                <=> calls'[c] % CONFIG[c][SAMPLE_EVERY_INDEX] = 0
            /\ PassedRangeFilter(pout')
                => /\ calls'[c] % CONFIG[c][SAMPLE_EVERY_INDEX] = 0
                   /\ eligible'[c] # eligible[c]]_vars

\* An eligible call recorded as the second call on its CPU though it is the
\* first eligible one, under SAMPLE_EVERY = 2.
C16_Witness ==
    \E c \in Cpus :
        /\ CONFIG[c][SAMPLE_EVERY_INDEX] = 2
        /\ calls[c] = 2
        /\ eligible[c] = 1
        /\ pout = "recorded"
        /\ \A d \in Cpus \ {c} : calls[d] = 0

\* The step ends the visit of ckey: its last shard has been dealt with.
KeyVisitEnds == cpc \in {"shard", "process"} /\ cpc' = "iter"

\* Every shard of the key being visited fails the retention filter.
AllShardsFail ==
    \A c \in Cpus :
        cvals[c].total < opt.skip_size /\ SumCounters(cvals[c]) < opt.skip_count

\* C17: in every sweep, a key whose shards all fail the retention filter in
\* that sweep is in the reclamation queue when the sweep ends, whatever keys
\* the sweep visited before it. The queue changes during a sweep only for the
\* key being visited, at the end of its visit, so the key is to be in the
\* queue when its visit ends.
C17_FailingKeysQueued ==
    [][(KeyVisitEnds /\ AllShardsFail) => ckey \in keys_to_drop']_vars

\* C18: for every setting of skip_size and skip_count, once the visit of a
\* processed key ends allocations_stats[key] is the shard of the key's own
\* CPU as read in that visit; the key's other per-CPU slots do not replace
\* it.
C18_StatsHoldOwnCpuShard ==
    [][(KeyVisitEnds /\ ~AllShardsFail)
        => /\ IntoParts(ckey) \in DOMAIN allocations_stats'
           /\ allocations_stats'[IntoParts(ckey)]
                  = cvals[IntoParts(ckey).cpu]]_vars

AllShardsFailInU64 ==
    \A c \in Cpus :
        /\ cvals[c].total < opt.skip_size
        /\ SumCounters(cvals[c]) % (U64_MAX + 1) < opt.skip_count

ShardOrZero(map, key, c) ==
    IF key \in DOMAIN map THEN map[key][c] ELSE HistogramNew

\* C21: a probe invocation accepted with (pid, stack_id, cpu, size), the CPU
\* being the one whose call count moved and the size the one it read, changes
\* exactly one shard: that of key (pid, stack_id, cpu) on that CPU becomes
\* increment(previous value or zero, size); every other key and every other
\* CPU's shard is unchanged, as are the MIN_ALLOC, MAX_ALLOC and SAMPLE_EVERY
\* cells.
C21_AcceptedCallChangesOneShard ==
    [][\A cpu \in {c \in Cpus : calls'[c] # calls[c]}, pid \in Pids,
          stack \in StackIds :
            (/\ pout' = "recorded"
             /\ Probe(cpu, pid, <<psize', 0>>, TRUE, stack, TRUE))
            => LET key == HistogramKeyNew(pid, AsU32(stack), cpu)
               IN  /\ DOMAIN HISTOGRAMS' = DOMAIN HISTOGRAMS \cup {key}
                   /\ HISTOGRAMS'[key][cpu] =
                          Increment(ShardOrZero(HISTOGRAMS, key, cpu), psize')
                   /\ \A c \in Cpus \ {cpu} :
                          HISTOGRAMS'[key][c] = ShardOrZero(HISTOGRAMS, key, c)
                   /\ \A k \in DOMAIN HISTOGRAMS \ {key} :
                          HISTOGRAMS'[k] = HISTOGRAMS[k]
                   /\ \A c \in Cpus :
                          \A i \in {MIN_ALLOC_INDEX, MAX_ALLOC_INDEX,
                                    SAMPLE_EVERY_INDEX} :
                              CONFIG'[c][i] = CONFIG[c][i]]_vars

\* A second key recorded on the CPU whose slot of the first key is empty.
C21_Witness ==
    /\ pout = "recorded"
    /\ \E k1, k2 \in DOMAIN HISTOGRAMS :
          /\ k1 # k2
          /\ k1.cpu # k2.cpu
          /\ HISTOGRAMS[k1][k1.cpu].total > 0
          /\ HISTOGRAMS[k2][k2.cpu].total > 0
          /\ HISTOGRAMS[k1][k2.cpu] = HistogramNew

\* The invocation that ended in outcome `out` dropped its sample.
DroppedSample(out) ==
    out \in {"sampling_skip", "arg_failure", "out_of_range", "stack_failure",
             "insert_failure"}

\* C22: a probe invocation that drops its sample returns, with a u32 and
\* nothing else for the host, and leaves the histogram map unchanged; of the
\* shared state it changes at most the SAMPLE_COUNT cell of its own CPU and,
\* on insert failure, the stack-trace table.
C22_DroppedSampleChangesNoHistogram ==
    [][\A cpu \in {c \in Cpus : calls'[c] # calls[c]} :
         DroppedSample(pout')
         => /\ pret' \in U32
            /\ HISTOGRAMS' = HISTOGRAMS
            /\ \A c \in Cpus, i \in ConfigIndices :
                  (c # cpu \/ i # COUNT_INDEX) => CONFIG'[c][i] = CONFIG[c][i]
            /\ pout' # "insert_failure" => STACKTRACES' = STACKTRACES
            /\ UNCHANGED <<function, mainVars, collectorVars>>]_vars

\* A sample dropped at the insert, its stack id left in the stack-trace table.
C22_Witness ==
    /\ pout = "insert_failure"
    /\ pret # 0
    /\ STACKTRACES # {}
    /\ DOMAIN HISTOGRAMS = {}

\* C23: across the probe's writes to a shard, each of which is an increment,
\* total and every data[i] never decrease from one state to the next, a
\* counter at its upper bound included.
C23_ShardNeverDecreases ==
    [][hop' = "increment"
        => /\ hist'.total >= hist.total
           /\ \A i \in Buckets : hist'.data[i] >= hist.data[i]]_vars

\* C24: after the cancellation flag becomes true the collector starts at most
\* one further call of process before it returns.
C24_AtMostOneProcessAfterCancel == late_process <= 1

\* The flag was set between the load of canceled and the call of process;
\* the collector made that one call and returned.
C24_Witness ==
    /\ late_process = 1
    /\ cpc = "returned"

\* C25: every reported (pid, stack_id) entry that shows a resolved trace shows
\* one that was symbolized against that same pid, also when several pids
\* share the stack id. The reporter shows resolved_traces[stack_id].
C25_TraceOfReportedPid ==
    mpc = "done"
    => \A i \in 1..Len(report) :
          report[i].key.stack_id \in DOMAIN resolved_traces
          => resolved_traces[report[i].key.stack_id].pid = report[i].key.pid

\* C26: the drain never removes from the stack-trace map a stack id still
\* used by another key of the histogram map that passed the retention filter
\* in the latest sweep.
C26_DrainKeepsLiveStackIds ==
    [][\A id \in STACKTRACES \ STACKTRACES' :
          \A k \in live_keys \cap DOMAIN HISTOGRAMS' :
              IntoParts(k).stack_id # id]_vars

\* C27: every sample recorded before the cancellation flag was set, in a
\* shard that passes the retention filter, is reflected in the EventProcessor
\* the collector returns: the key is in allocations_stats with a histogram
\* that has at least the total and the counters the shard had at that time.
C27_ReturnedProcessorHasSamplesBeforeCancel ==
    cpc = "returned"
        => \A k \in DOMAIN hist_at_cancel :
             LET parts == IntoParts(k)
                 shard == hist_at_cancel[k][parts.cpu]
             IN  ~SkipShard(shard)
                     => /\ parts \in DOMAIN allocations_stats
                        /\ allocations_stats[parts].total >= shard.total
                        /\ \A i \in Buckets :
                              allocations_stats[parts].data[i] >= shard.data[i]

=============================================================================
